---- MODULE Spec2Model ----
(***************************************************************************)
(* MutableVertexPartition (src/src/MutableVertexPartition.cpp): a          *)
(* partition of a graph's vertices with per-community aggregates, kept     *)
(* incrementally under move_node, with an empty-community pool and a       *)
(* per-direction neighbour-community cache.                                *)
(*                                                                         *)
(* Vectors are sequences; the C++ index i is the sequence index i + 1      *)
(* (see at / put).  Edge weights are doubles in the source; here a weight  *)
(* is the integer number of quarter units it holds, so that the source's   *)
(* divisions by 2.0 (undirected) and again by 2.0 (self-loop) are exact,   *)
(* as they are in binary floating point for such values.                   *)
(***************************************************************************)
EXTENDS Integers, Sequences, FiniteSets, TLC

\* ------------------------------------------------------------------ bounds
\* A graph holds the first MaxEdges edges of EdgeList.
MaxEdges == 4
\* Cap on the length of _empty_communities (it is never cleared by init_admin).
MaxPool == 2
\* Cap on the sets a failing add_empty_community leaves behind in community.
MaxPhantom == 1

\* ------------------------------------------------------------------ state
VARIABLES
  graph,                                 \* the Graph the partition is defined on
  _membership,
  community,
  _csize,
  _total_weight_in_comm,
  _total_weight_from_comm,
  _total_weight_to_comm,
  _total_weight_in_all_comms,
  _total_possible_edges_in_all_comms,
  _empty_communities,
  _current_node_cache_community_from,
  _current_node_cache_community_to,
  _current_node_cache_community_all,
  _cached_weight_from_community,
  _cached_weight_to_community,
  _cached_weight_all_community,
  _cached_neigh_comms_from,
  _cached_neigh_comms_to,
  _cached_neigh_comms_all,
  last,                                  \* history: the last call and its outcome
  pre                                    \* history: the partition state before it

partition_vars == <<_membership, community, _csize, _total_weight_in_comm,
                    _total_weight_from_comm, _total_weight_to_comm,
                    _total_weight_in_all_comms,
                    _total_possible_edges_in_all_comms, _empty_communities>>

cache_vars == <<_current_node_cache_community_from,
                _current_node_cache_community_to,
                _current_node_cache_community_all,
                _cached_weight_from_community, _cached_weight_to_community,
                _cached_weight_all_community, _cached_neigh_comms_from,
                _cached_neigh_comms_to, _cached_neigh_comms_all>>

vars == <<graph, partition_vars, cache_vars, last, pre>>

\* ---------------------------------------------------------------- vectors
at(s, i) == s[i + 1]

put(s, i, x) == [s EXCEPT ![i + 1] = x]

\* The vector of the entries f[1], ..., f[n].
RECURSIVE vector(_, _)
vector(f, n) == IF n = 0 THEN <<>> ELSE Append(vector(f, n - 1), f[n])

\* vector<T>(n, x) / resize(n) on a cleared vector
filled(n, x) == vector([i \in 1..n |-> x], n)

\* vector::resize(n, x): keeps the first n entries, pads with x
resize(s, n, x) == vector([i \in 1..n |-> IF i <= Len(s) THEN s[i] ELSE x], n)

range(n) == vector([i \in 1..n |-> i - 1], n)

\* node_size of the vertices 0, 1, 2 of the graphs: one vertex of size 2 (an
\* aggregate of two nodes), two of the default size 1.
NodeSizes == <<2, 1, 1>>

VertexCount == Len(NodeSizes)

Vertices == 0..(VertexCount - 1)

\* ------------------------------------------------------------------ graph
IGRAPH_OUT == "OUT"

IGRAPH_IN == "IN"

IGRAPH_ALL == "ALL"

Modes == {IGRAPH_OUT, IGRAPH_IN, IGRAPH_ALL}

\* The edges graphs are built from: a self-loop, two edges out of vertex 0,
\* a path 0-1-2 and a reciprocal edge; weights 1.0 and 2.0 in quarter units.
EdgeList ==
  << [from |-> 0, to |-> 0, w |-> 4],
     [from |-> 0, to |-> 1, w |-> 4],
     [from |-> 1, to |-> 2, w |-> 8],
     [from |-> 0, to |-> 2, w |-> 4],
     [from |-> 1, to |-> 0, w |-> 8],
     [from |-> 2, to |-> 2, w |-> 4] >>

Graphs ==
  { [is_directed |-> d,
     node_sizes  |-> NodeSizes,
     edges       |-> SubSeq(EdgeList, 1, IF MaxEdges <= Len(EdgeList)
                                         THEN MaxEdges ELSE Len(EdgeList))] :
      d \in BOOLEAN }

vcount == VertexCount

is_directed == graph.is_directed

node_size(v) == at(graph.node_sizes, v)

edge_weight(e) == graph.edges[e].w

\* possible_edges(n): n(n-1) for a directed graph, n(n-1)/2 for an undirected one.
possible_edges(n) == IF is_directed THEN n * (n - 1) ELSE (n * (n - 1)) \div 2

\* The entries edge e contributes to the neighbour list of v in direction mode:
\* the other endpoint, once per incidence.  In an undirected graph every mode
\* lists every incident edge and a self-loop is listed twice; in a directed
\* graph a self-loop is listed once per direction, hence twice under ALL.
edge_entries(v, mode, e) ==
  LET ed  == graph.edges[e]
      out == IF ed.from = v THEN <<[u |-> ed.to, e |-> e]>> ELSE <<>>
      in  == IF ed.to = v THEN <<[u |-> ed.from, e |-> e]>> ELSE <<>>
  IN  IF ~is_directed \/ mode = IGRAPH_ALL THEN out \o in
      ELSE IF mode = IGRAPH_OUT THEN out
      ELSE in

RECURSIVE neighbour_entries(_, _, _)
neighbour_entries(v, mode, e) ==
  IF e > Len(graph.edges) THEN <<>>
  ELSE edge_entries(v, mode, e) \o neighbour_entries(v, mode, e + 1)

\* get_neighbours(v, mode) and get_neighbour_edges(v, mode), zipped: the
\* sequence of (neighbour u, edge e) pairs.
get_neighbours(v, mode) == neighbour_entries(v, mode, 1)

\* ----------------------------------------------------------- small helpers
csize(comm) == IF comm < Len(_csize) THEN at(_csize, comm) ELSE 0

nb_communities == Len(community)

RECURSIVE SumFrom(_, _)
SumFrom(s, i) == IF i > Len(s) THEN 0 ELSE s[i] + SumFrom(s, i + 1)

SeqSum(s) == SumFrom(s, 1)

RECURSIVE SetSum(_, _)
SetSum(S, f) ==
  IF S = {} THEN 0
  ELSE LET x == CHOOSE y \in S : TRUE IN f[x] + SetSum(S \ {x}, f)

SetMax(S) == CHOOSE x \in S : \A y \in S : y <= x

\* The partition state a caller can observe.
Snapshot ==
  [membership |-> _membership, community |-> community, csize |-> _csize,
   in_comm |-> _total_weight_in_comm, from_comm |-> _total_weight_from_comm,
   to_comm |-> _total_weight_to_comm, in_all |-> _total_weight_in_all_comms,
   possible |-> _total_possible_edges_in_all_comms,
   empty |-> _empty_communities]

NoCall ==
  [op |-> "none", v |-> -1, comm |-> -1, old |-> -1, mode |-> "",
   outcome |-> "ok", result |-> -1, rlist |-> <<>>, warm |-> FALSE,
   minted |-> FALSE, undo |-> FALSE,
   arg1 |-> <<>>, arg2 |-> <<>>, rset |-> {}]

\* A call that ended in undefined behaviour and took the process down stops
\* the program: no operation is possible afterwards.
Alive ==
  /\ last.outcome # "crash"
  /\ ~(last.op = "construct" /\ last.outcome = "throw")

\* ------------------------------------------------------------- init_admin
\* The loop body of lines 149-177 without the halving of lines 169-170: an
\* internal edge of an undirected graph is counted at full weight from each
\* of its two listings.
init_admin_edge_no_halving(acc, v_comm, nb) ==
  LET u_comm == at(acc.membership, nb.u)
      w      == edge_weight(nb.e)
      a1     == [acc EXCEPT !.from_comm = put(@, v_comm, at(@, v_comm) + w)]
      a2     == [a1 EXCEPT !.to_comm = put(@, u_comm, at(@, u_comm) + w)]
  IN  IF v_comm = u_comm
      THEN [a2 EXCEPT !.in_comm = put(@, v_comm, at(@, v_comm) + w),
                      !.in_all = @ + w]
      ELSE a2

\* One incident edge of v in the vertex loop of init_admin (lines 149-177).
init_admin_edge(acc, v_comm, nb) ==
  LET u_comm == at(acc.membership, nb.u)
      w      == edge_weight(nb.e)
      a1     == [acc EXCEPT !.from_comm = put(@, v_comm, at(@, v_comm) + w)]
      a2     == [a1 EXCEPT !.to_comm = put(@, u_comm, at(@, u_comm) + w)]
      wi     == IF ~is_directed THEN w \div 2 ELSE w
  IN  IF v_comm = u_comm
      THEN [a2 EXCEPT !.in_comm = put(@, v_comm, at(@, v_comm) + wi),
                      !.in_all = @ + wi]
      ELSE a2

RECURSIVE init_admin_edges(_, _, _, _)
init_admin_edges(acc, v_comm, neighbours, idx) ==
  IF idx > Len(neighbours) THEN acc
  ELSE init_admin_edges(init_admin_edge(acc, v_comm, neighbours[idx]),
                        v_comm, neighbours, idx + 1)

\* The vertex loop of init_admin (lines 133-178).
RECURSIVE init_admin_vertices(_, _)
init_admin_vertices(acc, v) ==
  IF v >= vcount THEN acc
  ELSE LET v_comm == at(acc.membership, v)
           a1 == [acc EXCEPT
                    !.community = put(@, v_comm, at(@, v_comm) \cup {v}),
                    !.csize = put(@, v_comm, at(@, v_comm) + node_size(v))]
       IN  init_admin_vertices(
             init_admin_edges(a1, v_comm, get_neighbours(v, IGRAPH_OUT), 1),
             v + 1)

\* The sum of possible_edges over the slots (lines 180-191).
RECURSIVE init_admin_possible(_, _)
init_admin_possible(sizes, c) ==
  IF c >= Len(sizes) THEN 0
  ELSE possible_edges(at(sizes, c)) + init_admin_possible(sizes, c + 1)

\* The administration reset for nb_comms communities (lines 115-132).
init_admin_reset(m, nb_comms) ==
  [membership |-> m,
   community |-> filled(nb_comms, {}),
   csize |-> filled(nb_comms, 0),
   in_comm |-> filled(nb_comms, 0),
   from_comm |-> filled(nb_comms, 0),
   to_comm |-> filled(nb_comms, 0),
   in_all |-> 0]

\* The administration after the vertex loop, with the possible edges added.
init_admin_finish(acc) ==
  [membership |-> acc.membership, community |-> acc.community,
   csize |-> acc.csize, in_comm |-> acc.in_comm, from_comm |-> acc.from_comm,
   to_comm |-> acc.to_comm, in_all |-> acc.in_all,
   possible |-> init_admin_possible(acc.csize, 0)]

\* init_admin on membership m: the administration it builds.  It neither
\* clears nor fills _empty_communities.
init_admin(m) ==
  init_admin_finish(
    init_admin_vertices(
      init_admin_reset(m, SetMax({at(m, i) + 1 : i \in Vertices})), 0))

\* The assignments of init_admin to the partition and the cache, the pool
\* left as it is.
install(adm) ==
  /\ _membership' = adm.membership
  /\ community' = adm.community
  /\ _csize' = adm.csize
  /\ _total_weight_in_comm' = adm.in_comm
  /\ _total_weight_from_comm' = adm.from_comm
  /\ _total_weight_to_comm' = adm.to_comm
  /\ _total_weight_in_all_comms' = adm.in_all
  /\ _total_possible_edges_in_all_comms' = adm.possible
  /\ _current_node_cache_community_from' = vcount + 1
  /\ _current_node_cache_community_to' = vcount + 1
  /\ _current_node_cache_community_all' = vcount + 1
  /\ _cached_weight_from_community' = resize(_cached_weight_from_community, vcount, 0)
  /\ _cached_weight_to_community' = resize(_cached_weight_to_community, vcount, 0)
  /\ _cached_weight_all_community' = resize(_cached_weight_all_community, vcount, 0)
  /\ UNCHANGED <<_empty_communities, _cached_neigh_comms_from,
                 _cached_neigh_comms_to, _cached_neigh_comms_all>>

\* ------------------------------------------------------------ construction
\* Memberships handed in by a caller: vertex 0 in community a, the others in
\* b, over the lowest and the highest id, so that an id in between is unused.
MembershipInputs ==
  { vector([i \in 1..VertexCount |-> IF i = 1 THEN a ELSE b], VertexCount) :
      a, b \in {0, VertexCount - 1} }

\* Memberships of the wrong size: one entry short, one entry long.
BadMembershipInputs ==
  { vector([i \in 1..n |-> 0], n) : n \in {VertexCount - 1, VertexCount + 1} }

\* The coarser_node vectors handed to the two-argument from_coarser_partition.
CoarserNodeInputs ==
  { range(VertexCount),
    vector([i \in 1..VertexCount |-> IF i = 1 THEN VertexCount - 1 ELSE 0],
           VertexCount) }

NoSnapshot ==
  [membership |-> <<>>, community |-> <<>>, csize |-> <<>>, in_comm |-> <<>>,
   from_comm |-> <<>>, to_comm |-> <<>>, in_all |-> 0, possible |-> 0,
   empty |-> <<>>]

\* The object after a constructor has run init_admin on membership m.
constructed(m, op) ==
  /\ \E adm \in {init_admin(m)} :
       /\ _membership = adm.membership
       /\ community = adm.community
       /\ _csize = adm.csize
       /\ _total_weight_in_comm = adm.in_comm
       /\ _total_weight_from_comm = adm.from_comm
       /\ _total_weight_to_comm = adm.to_comm
       /\ _total_weight_in_all_comms = adm.in_all
       /\ _total_possible_edges_in_all_comms = adm.possible
  /\ last = [NoCall EXCEPT !.op = op, !.arg1 = m]
  /\ pre = NoSnapshot
  /\ _empty_communities = <<>>
  /\ _current_node_cache_community_from = vcount + 1
  /\ _current_node_cache_community_to = vcount + 1
  /\ _current_node_cache_community_all = vcount + 1
  /\ _cached_weight_from_community = filled(vcount, 0)
  /\ _cached_weight_to_community = filled(vcount, 0)
  /\ _cached_weight_all_community = filled(vcount, 0)
  /\ _cached_neigh_comms_from = <<>>
  /\ _cached_neigh_comms_to = <<>>
  /\ _cached_neigh_comms_all = <<>>

\* The constructor has thrown at line 38: no object, nothing built.
not_constructed(m) ==
  /\ _membership = <<>>
  /\ community = <<>>
  /\ _csize = <<>>
  /\ _total_weight_in_comm = <<>>
  /\ _total_weight_from_comm = <<>>
  /\ _total_weight_to_comm = <<>>
  /\ _total_weight_in_all_comms = 0
  /\ _total_possible_edges_in_all_comms = 0
  /\ last = [NoCall EXCEPT !.op = "construct", !.arg1 = m, !.outcome = "throw"]
  /\ pre = NoSnapshot
  /\ _empty_communities = <<>>
  /\ _current_node_cache_community_from = 0
  /\ _current_node_cache_community_to = 0
  /\ _current_node_cache_community_all = 0
  /\ _cached_weight_from_community = <<>>
  /\ _cached_weight_to_community = <<>>
  /\ _cached_weight_all_community = <<>>
  /\ _cached_neigh_comms_from = <<>>
  /\ _cached_neigh_comms_to = <<>>
  /\ _cached_neigh_comms_all = <<>>

\* The size test of line 36 letting a membership that is too long through.
membership_size_too_short(membership) == Len(membership) < vcount

\* The size test of line 36.
membership_size_mismatch(membership) == Len(membership) # vcount

\* MutableVertexPartition(graph, membership), lines 31-42.
MutableVertexPartition(membership) ==
  IF membership_size_mismatch(membership)
  THEN not_constructed(membership)
  ELSE constructed(membership, "construct")

\* MutableVertexPartition(graph), lines 45-50.
MutableVertexPartition_default == constructed(range(vcount), "construct_default")

\* MutableVertexPartition(graph, membership) with a membership of the right
\* size, the default one included.
Init ==
  /\ graph \in Graphs
  /\ \E m \in MembershipInputs \cup {range(vcount)} : MutableVertexPartition(m)

\* Both constructors, on memberships of the right and of the wrong size.
InitConstruct ==
  /\ graph \in Graphs
  /\ \/ \E m \in MembershipInputs \cup BadMembershipInputs : MutableVertexPartition(m)
     \/ MutableVertexPartition_default

\* -------------------------------------------------------------- move_node
\* The loop body of lines 378-441 with one of its three decisions changed:
\* a self-loop not counted as internal to the new community, the running
\* total not reduced on removal, or the internal weight removed from the old
\* community whatever u's community.
move_node_edge_changed(acc, v, old_comm, new_comm, mode, nb, loop, total, always) ==
  LET u      == nb.u
      u_comm == at(_membership, u)
      w      == edge_weight(nb.e)
      a1     == IF mode = IGRAPH_OUT
                THEN [acc EXCEPT !.from_comm =
                        LET f1 == put(@, old_comm, at(@, old_comm) - w)
                        IN  put(f1, new_comm, at(f1, new_comm) + w)]
                ELSE [acc EXCEPT !.to_comm =
                        LET t1 == put(@, old_comm, at(@, old_comm) - w)
                        IN  put(t1, new_comm, at(t1, new_comm) + w)]
      int_weight == (w \div (IF is_directed THEN 1 ELSE 2))
                       \div (IF u = v THEN 2 ELSE 1)
      a2     == IF always \/ old_comm = u_comm
                THEN [a1 EXCEPT
                        !.in_comm = put(@, old_comm, at(@, old_comm) - int_weight),
                        !.in_all = IF total THEN @ - int_weight ELSE @]
                ELSE a1
  IN  IF (new_comm = u_comm) \/ (loop /\ u = v)
      THEN [a2 EXCEPT
              !.in_comm = put(@, new_comm, at(@, new_comm) + int_weight),
              !.in_all = @ + int_weight]
      ELSE a2

move_node_edge_no_loop(acc, v, old_comm, new_comm, mode, nb) ==
  move_node_edge_changed(acc, v, old_comm, new_comm, mode, nb, FALSE, TRUE, FALSE)

move_node_edge_total_kept(acc, v, old_comm, new_comm, mode, nb) ==
  move_node_edge_changed(acc, v, old_comm, new_comm, mode, nb, TRUE, FALSE, FALSE)

move_node_edge_always_remove(acc, v, old_comm, new_comm, mode, nb) ==
  move_node_edge_changed(acc, v, old_comm, new_comm, mode, nb, TRUE, TRUE, TRUE)

\* One incident edge of v in the administration loop of move_node
\* (lines 378-441); u's community is read from the membership vector, which
\* still holds v's old community.
move_node_edge(acc, v, old_comm, new_comm, mode, nb) ==
  LET u      == nb.u
      u_comm == at(_membership, u)
      w      == edge_weight(nb.e)
      a1     == IF mode = IGRAPH_OUT
                THEN [acc EXCEPT !.from_comm =
                        LET f1 == put(@, old_comm, at(@, old_comm) - w)
                        IN  put(f1, new_comm, at(f1, new_comm) + w)]
                ELSE [acc EXCEPT !.to_comm =
                        LET t1 == put(@, old_comm, at(@, old_comm) - w)
                        IN  put(t1, new_comm, at(t1, new_comm) + w)]
      int_weight == (w \div (IF is_directed THEN 1 ELSE 2))
                       \div (IF u = v THEN 2 ELSE 1)
      a2     == IF old_comm = u_comm
                THEN [a1 EXCEPT
                        !.in_comm = put(@, old_comm, at(@, old_comm) - int_weight),
                        !.in_all = @ - int_weight]
                ELSE a1
  IN  IF (new_comm = u_comm) \/ (u = v)
      THEN [a2 EXCEPT
              !.in_comm = put(@, new_comm, at(@, new_comm) + int_weight),
              !.in_all = @ + int_weight]
      ELSE a2

RECURSIVE move_node_edges(_, _, _, _, _, _, _)
move_node_edges(acc, v, old_comm, new_comm, mode, neighbours, idx) ==
  IF idx > Len(neighbours) THEN acc
  ELSE move_node_edges(
         move_node_edge(acc, v, old_comm, new_comm, mode, neighbours[idx]),
         v, old_comm, new_comm, mode, neighbours, idx + 1)

\* Line 296 without the moved vertex's own size in the size difference.
delta_possible_edges_no_node_size(node_sz, old_comm, new_comm) ==
  (2 * node_sz * (at(_csize, new_comm) - at(_csize, old_comm)))
     \div (2 - (IF is_directed THEN 1 ELSE 0))

\* The change of _total_possible_edges_in_all_comms (line 296), from the
\* sizes before the move.
delta_possible_edges_in_comms(node_sz, old_comm, new_comm) ==
  (2 * node_sz * (at(_csize, new_comm) - at(_csize, old_comm) + node_sz))
     \div (2 - (IF is_directed THEN 1 ELSE 0))

\* Lines 294-301 without the test new_comm != old_comm.
move_node_possible_unconditional(node_sz, old_comm, new_comm) ==
  _total_possible_edges_in_all_comms
    + delta_possible_edges_in_comms(node_sz, old_comm, new_comm)

\* _total_possible_edges_in_all_comms after lines 294-301.
move_node_possible(node_sz, old_comm, new_comm) ==
  IF new_comm # old_comm
  THEN _total_possible_edges_in_all_comms
         + delta_possible_edges_in_comms(node_sz, old_comm, new_comm)
  ELSE _total_possible_edges_in_all_comms

\* Line 307 left out: v stays in the old member set.
move_node_erase_skipped(old_comm, v) == community

\* community after line 307.
move_node_erase(old_comm, v) ==
  put(community, old_comm, at(community, old_comm) \ {v})

\* Line 308 counting a vertex as 1 instead of node_size(v).
move_node_csize_sub_one(old_comm, node_sz) ==
  put(_csize, old_comm, at(_csize, old_comm) - 1)

\* _csize after line 308.
move_node_csize_sub(old_comm, node_sz) ==
  put(_csize, old_comm, at(_csize, old_comm) - node_sz)

\* The reverse search of lines 329-336: the position of the last occurrence
\* of comm in pool, 0 when the search runs to rend().
rfind(pool, comm) ==
  IF \E i \in 1..Len(pool) : pool[i] = comm
  THEN SetMax({i \in 1..Len(pool) : pool[i] = comm})
  ELSE 0

erase(s, i) == SubSeq(s, 1, i - 1) \o SubSeq(s, i + 1, Len(s))

\* How the erase of line 342 can end.  When the search found new_comm the
\* entry is erased.  When it ran to rend(), the erased position is one
\* before begin(): undefined behaviour.  The builds at hand either die, or
\* shift the whole vector down by one over that position, which drops the
\* front entry; on an empty vector the size underflows and no defined
\* state is left.
erase_outcomes(pool, comm) ==
  IF rfind(pool, comm) > 0 THEN {"ok"}
  ELSE IF pool = <<>> THEN {"crash"}
  ELSE {"crash", "ub"}

move_node(v, new_comm) ==
  /\ Alive
  /\ new_comm < Len(_csize)
  /\ LET node_sz     == node_size(v)
         old_comm    == at(_membership, v)
         possible1   == move_node_possible(node_sz, old_comm, new_comm)
         community1  == move_node_erase(old_comm, v)
         csize1      == move_node_csize_sub(old_comm, node_sz)
         pool1       == IF at(csize1, old_comm) = 0
                        THEN Append(_empty_communities, old_comm)
                        ELSE _empty_communities
         must_erase  == at(csize1, new_comm) = 0
         community2  == put(community1, new_comm, at(community1, new_comm) \cup {v})
         csize2      == put(csize1, new_comm, at(csize1, new_comm) + node_size(v))
         acc0        == [in_comm |-> _total_weight_in_comm,
                         from_comm |-> _total_weight_from_comm,
                         to_comm |-> _total_weight_to_comm,
                         in_all |-> _total_weight_in_all_comms]
         acc1        == move_node_edges(acc0, v, old_comm, new_comm, IGRAPH_OUT,
                                        get_neighbours(v, IGRAPH_OUT), 1)
         acc2        == move_node_edges(acc1, v, old_comm, new_comm, IGRAPH_IN,
                                        get_neighbours(v, IGRAPH_IN), 1)
     IN  /\ \E outcome \in (IF must_erase THEN erase_outcomes(pool1, new_comm)
                            ELSE {"ok"}), acc \in {acc2} :
              /\ last' = [NoCall EXCEPT !.op = "move_node", !.v = v,
                            !.comm = new_comm, !.old = old_comm,
                            !.outcome = outcome,
                            !.undo = /\ last.op = "move_node"
                                     /\ last.outcome # "crash"
                                     /\ last.v = v
                                     /\ last.old = new_comm]
              /\ pre' = Snapshot
              /\ IF outcome = "crash"
                 THEN UNCHANGED partition_vars
                 ELSE /\ _total_possible_edges_in_all_comms' = possible1
                      /\ community' = community2
                      /\ _csize' = csize2
                      /\ _empty_communities' =
                           IF ~must_erase THEN pool1
                           ELSE IF outcome = "ok"
                                THEN erase(pool1, rfind(pool1, new_comm))
                                ELSE Tail(pool1)
                      /\ Len(_empty_communities') <= MaxPool
                      /\ _total_weight_in_comm' = acc.in_comm
                      /\ _total_weight_from_comm' = acc.from_comm
                      /\ _total_weight_to_comm' = acc.to_comm
                      /\ _total_weight_in_all_comms' = acc.in_all
                      /\ _membership' = put(_membership, v, new_comm)
  /\ UNCHANGED <<graph, cache_vars>>

\* ---------------------------------------------------- empty-community pool
\* The capacity test of line 261 taken one slot early.
capacity_exceeded_at_count(nb_comms) == nb_comms >= vcount

\* The capacity test of line 261, on the slot count after the append.
capacity_exceeded(nb_comms) == nb_comms > vcount

\* What add_empty_community does to the state: the member set is appended
\* before the capacity test, the arrays and the pool after it.
add_empty_community_effect ==
  LET community1 == Append(community, {})
      nb_comms   == Len(community1)
      new_comm   == nb_comms - 1
  IN  IF capacity_exceeded(nb_comms)
      THEN [throws |-> TRUE, new_comm |-> -1, community |-> community1,
            csize |-> _csize, in_comm |-> _total_weight_in_comm,
            from_comm |-> _total_weight_from_comm,
            to_comm |-> _total_weight_to_comm, empty |-> _empty_communities]
      ELSE [throws |-> FALSE, new_comm |-> new_comm, community |-> community1,
            csize |-> put(resize(_csize, nb_comms, 0), new_comm, 0),
            in_comm |-> put(resize(_total_weight_in_comm, nb_comms, 0), new_comm, 0),
            from_comm |-> put(resize(_total_weight_from_comm, nb_comms, 0), new_comm, 0),
            to_comm |-> put(resize(_total_weight_to_comm, nb_comms, 0), new_comm, 0),
            empty |-> Append(_empty_communities, new_comm)]

apply_add_empty_community(eff) ==
  /\ Len(eff.community) <= vcount + MaxPhantom
  /\ Len(eff.empty) <= MaxPool
  /\ community' = eff.community
  /\ _csize' = eff.csize
  /\ _total_weight_in_comm' = eff.in_comm
  /\ _total_weight_from_comm' = eff.from_comm
  /\ _total_weight_to_comm' = eff.to_comm
  /\ _empty_communities' = eff.empty
  /\ UNCHANGED <<_membership, _total_weight_in_all_comms,
                 _total_possible_edges_in_all_comms>>

add_empty_community ==
  /\ Alive
  /\ LET eff == add_empty_community_effect
     IN  /\ apply_add_empty_community(eff)
         /\ last' = [NoCall EXCEPT !.op = "add_empty_community",
                       !.outcome = IF eff.throws THEN "throw" ELSE "ok",
                       !.result = eff.new_comm]
  /\ pre' = Snapshot
  /\ UNCHANGED <<graph, cache_vars>>

get_empty_community ==
  /\ Alive
  /\ IF _empty_communities = <<>>
     THEN LET eff == add_empty_community_effect
          IN  /\ apply_add_empty_community(eff)
              /\ last' = [NoCall EXCEPT !.op = "get_empty_community",
                            !.outcome = IF eff.throws THEN "throw" ELSE "ok",
                            !.result = IF eff.throws THEN -1
                                       ELSE eff.empty[Len(eff.empty)],
                            !.minted = TRUE]
     ELSE /\ UNCHANGED partition_vars
          /\ last' = [NoCall EXCEPT !.op = "get_empty_community",
                        !.result = _empty_communities[Len(_empty_communities)]]
  /\ pre' = Snapshot
  /\ UNCHANGED <<graph, cache_vars>>

\* ------------------------------------------- renumbering and reconstruction
\* The order sort() puts the (size, id) pairs in: larger size first, equal
\* sizes in id order.
pairCompareReverseSecond(A, B) == A[1] > B[1] \/ (A[1] = B[1] /\ A[2] < B[2])

\* csizes of renumber_communities after the sort of line 214: the community
\* ids in sorted order.
csizes ==
  vector([i \in 1..nb_communities |->
            CHOOSE c \in 0..(nb_communities - 1) :
              Cardinality({j \in 0..(nb_communities - 1) :
                             pairCompareReverseSecond(<<csize(j), j>>,
                                                      <<csize(c), c>>)}) = i - 1],
         nb_communities)

\* Lines 219-223 ranking a community by the number of strictly larger ones:
\* communities of equal size get the same id.
new_comm_id_no_tie_break ==
  vector([i \in 1..nb_communities |->
            Cardinality({j \in 0..(nb_communities - 1) : csize(j) > csize(i - 1)})],
         nb_communities)

\* Line 222 with index and value exchanged: new_comm_id[i] = comm.
new_comm_id_inverted == csizes

\* new_comm_id of renumber_communities (lines 208-223): the position of each
\* community in the sorted csizes.
new_comm_id ==
  vector([i \in 1..nb_communities |->
            Cardinality({j \in 0..(nb_communities - 1) :
                           pairCompareReverseSecond(<<csize(j), j>>,
                                                    <<csize(i - 1), i - 1>>)})],
         nb_communities)

renumber_communities ==
  /\ Alive
  /\ \E adm \in {init_admin(vector([i \in 1..vcount |-> at(new_comm_id, _membership[i])],
                                       vcount))} : install(adm)
  /\ last' = [NoCall EXCEPT !.op = "renumber_communities",
                !.arg1 = _membership, !.arg2 = _csize]
  /\ pre' = NoSnapshot
  /\ UNCHANGED graph

\* Lines 238-239 reading the argument as a map from old to new community id:
\* _membership[i] = new_membership[_membership[i]].
renumber_communities_by_id(new_membership) ==
  /\ Alive
  /\ \E adm \in {init_admin(vector([i \in 1..vcount |->
                                       at(new_membership, _membership[i])],
                                    vcount))} : install(adm)
  /\ last' = [NoCall EXCEPT !.op = "renumber_communities_membership",
                !.arg1 = new_membership, !.arg2 = _membership]
  /\ pre' = NoSnapshot
  /\ UNCHANGED graph

\* What a loop over the vertices reads from a caller's vector s.  Entries
\* past vcount are never read.  Reading past the end of a shorter vector is
\* undefined behaviour: the process dies, or the read yields whatever lies
\* behind the vector, here one of the values an id can have.
read_outcomes(s) == IF Len(s) >= vcount THEN {"ok"} ELSE {"crash", "ub"}

read_vectors(s) ==
  IF Len(s) >= vcount THEN {vector(s, vcount)}
  ELSE { vector([i \in 1..vcount |-> IF i <= Len(s) THEN s[i] ELSE g], vcount) :
           g \in {0, VertexCount - 1} }

\* History: the state before a reconstruction is kept when the vector handed
\* in has the wrong size.
pre_of(s) == IF Len(s) = vcount THEN NoSnapshot ELSE Snapshot

\* renumber_communities(new_membership)
renumber_communities_membership(new_membership) ==
  /\ Alive
  /\ \E outcome \in read_outcomes(new_membership),
        mem \in read_vectors(new_membership) :
       /\ IF outcome = "crash"
          THEN UNCHANGED <<partition_vars, cache_vars>>
          ELSE \E adm \in {init_admin(mem)} : install(adm)
       /\ last' = [NoCall EXCEPT !.op = "renumber_communities_membership",
                     !.arg1 = new_membership, !.arg2 = _membership,
                     !.outcome = outcome]
  /\ pre' = pre_of(new_membership)
  /\ UNCHANGED graph

\* The loop of lines 488-499 without the step through coarser_node: vertex v
\* gets coarser_partition_membership[v].
RECURSIVE from_coarser_loop_direct(_, _, _, _, _)
from_coarser_loop_direct(mem, coarser_partition_membership, coarser_node, aliased, v) ==
  IF v >= vcount THEN mem
  ELSE from_coarser_loop_direct(
         put(mem, v, at(coarser_partition_membership, v)),
         coarser_partition_membership, coarser_node, aliased, v + 1)

\* The loop of from_coarser_partition (lines 488-499) from vertex v on.  With
\* aliased, coarser_node is the membership vector being written.
RECURSIVE from_coarser_loop(_, _, _, _, _)
from_coarser_loop(mem, coarser_partition_membership, coarser_node, aliased, v) ==
  IF v >= vcount THEN mem
  ELSE LET v_level2      == IF aliased THEN at(mem, v) ELSE at(coarser_node, v)
           v_comm_level2 == at(coarser_partition_membership, v_level2)
       IN  from_coarser_loop(put(mem, v, v_comm_level2),
                             coarser_partition_membership, coarser_node,
                             aliased, v + 1)

\* from_coarser_partition(coarser_partition_membership)
from_coarser_partition(coarser_partition_membership) ==
  /\ Alive
  /\ \E adm \in {init_admin(from_coarser_loop(_membership,
                          coarser_partition_membership, _membership, TRUE, 0))} : install(adm)
  /\ last' = [NoCall EXCEPT !.op = "from_coarser_partition",
                !.arg1 = coarser_partition_membership, !.arg2 = _membership]
  /\ pre' = NoSnapshot
  /\ UNCHANGED graph

\* from_coarser_partition(coarser_partition_membership, coarser_node)
from_coarser_partition_node(coarser_partition_membership, coarser_node) ==
  /\ Alive
  /\ \E outcome \in read_outcomes(coarser_node),
        cn \in read_vectors(coarser_node) :
       /\ IF outcome = "crash"
          THEN UNCHANGED <<partition_vars, cache_vars>>
          ELSE \E adm \in {init_admin(from_coarser_loop(_membership,
                               coarser_partition_membership, cn, FALSE, 0))} :
                 install(adm)
       /\ last' = [NoCall EXCEPT !.op = "from_coarser_partition_node",
                     !.arg1 = coarser_partition_membership,
                     !.arg2 = coarser_node, !.outcome = outcome]
  /\ pre' = pre_of(coarser_node)
  /\ UNCHANGED graph

\* from_partition(partition), partition given by its membership vector
from_partition(partition) ==
  /\ Alive
  /\ \E outcome \in read_outcomes(partition), mem \in read_vectors(partition) :
       /\ IF outcome = "crash"
          THEN UNCHANGED <<partition_vars, cache_vars>>
          ELSE \E adm \in {init_admin(mem)} : install(adm)
       /\ last' = [NoCall EXCEPT !.op = "from_partition", !.arg1 = partition,
                     !.outcome = outcome]
  /\ pre' = pre_of(partition)
  /\ UNCHANGED graph

\* ------------------------------------------------ neighbour-community cache
\* Lines 582-586 left out: the entries of the previous occupant stay.
reset_cached_skipped(table, neighs, i) == table

\* Lines 582-586: the entries listed in the side list are set to 0.
RECURSIVE reset_cached(_, _, _)
reset_cached(table, neighs, i) ==
  IF i > Len(neighs) THEN table
  ELSE reset_cached(put(table, neighs[i], 0), neighs, i + 1)

\* One incident edge in the loop of cache_neigh_communities (lines 597-622).
cache_neigh_edge(c, v, nb) ==
  LET u    == nb.u
      comm == at(_membership, u)
      w0   == edge_weight(nb.e)
      w    == IF u = v /\ ~is_directed THEN w0 \div 2 ELSE w0
      t1   == put(c.table, comm, at(c.table, comm) + w)
  IN  [table |-> t1,
       neighs |-> IF at(t1, comm) # 0 THEN Append(c.neighs, comm) ELSE c.neighs]

RECURSIVE cache_neigh_edges(_, _, _, _)
cache_neigh_edges(c, v, neighbours, idx) ==
  IF idx > Len(neighbours) THEN c
  ELSE cache_neigh_edges(cache_neigh_edge(c, v, neighbours[idx]), v,
                         neighbours, idx + 1)

\* cache_neigh_communities(v, mode) on the weight table and side list of
\* that mode: the table and list it leaves.
cache_neigh_communities(v, mode, table, neighs) ==
  cache_neigh_edges([table |-> reset_cached(table, neighs, 1), neighs |-> <<>>],
                    v, get_neighbours(v, mode), 1)

weight_to_comm(v, comm) ==
  /\ Alive
  /\ LET hit == _current_node_cache_community_to = v
         c   == IF hit
                THEN [table |-> _cached_weight_to_community,
                      neighs |-> _cached_neigh_comms_to]
                ELSE cache_neigh_communities(v, IGRAPH_OUT,
                       _cached_weight_to_community, _cached_neigh_comms_to)
     IN  /\ _cached_weight_to_community' = c.table
         /\ _cached_neigh_comms_to' = c.neighs
         /\ _current_node_cache_community_to' = v
         /\ last' = [NoCall EXCEPT !.op = "weight_to_comm", !.v = v,
                       !.comm = comm, !.mode = IGRAPH_OUT, !.warm = hit,
                       !.result = at(c.table, comm),
                       !.arg1 = IF hit THEN <<>> ELSE _cached_weight_to_community]
  /\ pre' = NoSnapshot
  /\ UNCHANGED <<graph, partition_vars, _current_node_cache_community_from,
                 _current_node_cache_community_all,
                 _cached_weight_from_community, _cached_weight_all_community,
                 _cached_neigh_comms_from, _cached_neigh_comms_all>>

weight_from_comm(v, comm) ==
  /\ Alive
  /\ LET hit == _current_node_cache_community_from = v
         c   == IF hit
                THEN [table |-> _cached_weight_from_community,
                      neighs |-> _cached_neigh_comms_from]
                ELSE cache_neigh_communities(v, IGRAPH_IN,
                       _cached_weight_from_community, _cached_neigh_comms_from)
     IN  /\ _cached_weight_from_community' = c.table
         /\ _cached_neigh_comms_from' = c.neighs
         /\ _current_node_cache_community_from' = v
         /\ last' = [NoCall EXCEPT !.op = "weight_from_comm", !.v = v,
                       !.comm = comm, !.mode = IGRAPH_IN, !.warm = hit,
                       !.result = at(c.table, comm),
                       !.arg1 = IF hit THEN <<>> ELSE _cached_weight_from_community]
  /\ pre' = NoSnapshot
  /\ UNCHANGED <<graph, partition_vars, _current_node_cache_community_to,
                 _current_node_cache_community_all,
                 _cached_weight_to_community, _cached_weight_all_community,
                 _cached_neigh_comms_to, _cached_neigh_comms_all>>

\* get_neigh_comms(v, mode)
get_neigh_comms(v, mode) ==
  /\ Alive
  /\ LET marker == IF mode = IGRAPH_IN THEN _current_node_cache_community_from
                   ELSE IF mode = IGRAPH_OUT THEN _current_node_cache_community_to
                   ELSE _current_node_cache_community_all
         table  == IF mode = IGRAPH_IN THEN _cached_weight_from_community
                   ELSE IF mode = IGRAPH_OUT THEN _cached_weight_to_community
                   ELSE _cached_weight_all_community
         neighs == IF mode = IGRAPH_IN THEN _cached_neigh_comms_from
                   ELSE IF mode = IGRAPH_OUT THEN _cached_neigh_comms_to
                   ELSE _cached_neigh_comms_all
         hit    == marker = v
         c      == IF hit THEN [table |-> table, neighs |-> neighs]
                   ELSE cache_neigh_communities(v, mode, table, neighs)
     IN  /\ _current_node_cache_community_from' =
               IF mode = IGRAPH_IN THEN v ELSE _current_node_cache_community_from
         /\ _current_node_cache_community_to' =
               IF mode = IGRAPH_OUT THEN v ELSE _current_node_cache_community_to
         /\ _current_node_cache_community_all' =
               IF mode = IGRAPH_ALL THEN v ELSE _current_node_cache_community_all
         /\ _cached_weight_from_community' =
               IF mode = IGRAPH_IN THEN c.table ELSE _cached_weight_from_community
         /\ _cached_weight_to_community' =
               IF mode = IGRAPH_OUT THEN c.table ELSE _cached_weight_to_community
         /\ _cached_weight_all_community' =
               IF mode = IGRAPH_ALL THEN c.table ELSE _cached_weight_all_community
         /\ _cached_neigh_comms_from' =
               IF mode = IGRAPH_IN THEN c.neighs ELSE _cached_neigh_comms_from
         /\ _cached_neigh_comms_to' =
               IF mode = IGRAPH_OUT THEN c.neighs ELSE _cached_neigh_comms_to
         /\ _cached_neigh_comms_all' =
               IF mode = IGRAPH_ALL THEN c.neighs ELSE _cached_neigh_comms_all
         /\ last' = [NoCall EXCEPT !.op = "get_neigh_comms", !.v = v,
                       !.mode = mode, !.warm = hit, !.rlist = c.neighs,
                       !.arg1 = IF hit THEN <<>> ELSE table]
  /\ pre' = NoSnapshot
  /\ UNCHANGED <<graph, partition_vars>>

\* The loop of lines 663-668 inserting the community of every neighbour,
\* whatever its constraint.
RECURSIVE constrained_neigh_loop_unconstrained(_, _, _, _, _)
constrained_neigh_loop_unconstrained(neigh_comms, v, neigh, constrained_membership, i) ==
  IF i > Len(neigh) THEN neigh_comms
  ELSE constrained_neigh_loop_unconstrained(
         neigh_comms \cup {at(_membership, neigh[i].u)},
         v, neigh, constrained_membership, i + 1)

\* The loop of lines 663-668 from position i of the neighbour list on.
RECURSIVE constrained_neigh_loop(_, _, _, _, _)
constrained_neigh_loop(neigh_comms, v, neigh, constrained_membership, i) ==
  IF i > Len(neigh) THEN neigh_comms
  ELSE LET u == neigh[i].u
       IN  constrained_neigh_loop(
             IF at(constrained_membership, v) = at(constrained_membership, u)
             THEN neigh_comms \cup {at(_membership, u)}
             ELSE neigh_comms,
             v, neigh, constrained_membership, i + 1)

\* get_neigh_comms(v, mode, constrained_membership)
get_neigh_comms_constrained(v, mode, constrained_membership) ==
  /\ Alive
  /\ last' = [NoCall EXCEPT !.op = "get_neigh_comms_constrained", !.v = v,
                !.mode = mode, !.arg1 = constrained_membership,
                !.rset = constrained_neigh_loop({}, v, get_neighbours(v, mode),
                                                constrained_membership, 1)]
  /\ pre' = NoSnapshot
  /\ UNCHANGED <<graph, partition_vars, cache_vars>>

\* --------------------------------------------------------- specifications
\* The partition under its mutating operations.
Next ==
  \/ \E v \in Vertices, c \in Vertices : move_node(v, c)
  \/ add_empty_community
  \/ get_empty_community
  \/ renumber_communities
  \/ \E m \in MembershipInputs : renumber_communities_membership(m)
  \/ \E m \in MembershipInputs : from_coarser_partition(m)
  \/ \E m \in MembershipInputs, cn \in CoarserNodeInputs :
       from_coarser_partition_node(m, cn)
  \/ \E m \in MembershipInputs : from_partition(m)

Spec == Init /\ [][Next]_vars

\* Construction, by either constructor and on memberships of either size,
\* followed by the incremental operations.
NextConstruct ==
  \/ \E v \in Vertices, c \in Vertices : move_node(v, c)
  \/ add_empty_community
  \/ get_empty_community

SpecConstruct == InitConstruct /\ [][NextConstruct]_vars

\* The reconstructions from a caller's vector, of the right and of the wrong
\* size, between moves.
NextReconstruct ==
  \/ \E v \in Vertices, c \in Vertices : move_node(v, c)
  \/ \E m \in MembershipInputs \cup BadMembershipInputs :
       renumber_communities_membership(m)
  \/ \E m \in MembershipInputs, cn \in CoarserNodeInputs \cup BadMembershipInputs :
       from_coarser_partition_node(m, cn)
  \/ \E m \in MembershipInputs \cup BadMembershipInputs : from_partition(m)

SpecReconstruct == Init /\ [][NextReconstruct]_vars

\* The cache of one direction under moves, from the default construction (every
\* vertex in its own community).  The caches of the directions do not read each
\* other, so each direction is explored on its own.
InitCache ==
  /\ Init
  /\ last.arg1 = range(VertexCount)

NextCacheOut ==
  \/ \E v \in Vertices, c \in Vertices : move_node(v, c)
  \/ \E v \in Vertices, c \in Vertices : weight_to_comm(v, c)
  \/ \E v \in Vertices : get_neigh_comms(v, IGRAPH_OUT)

SpecCacheOut == InitCache /\ [][NextCacheOut]_vars

NextCacheIn ==
  \/ \E v \in Vertices, c \in Vertices : move_node(v, c)
  \/ \E v \in Vertices, c \in Vertices : weight_from_comm(v, c)
  \/ \E v \in Vertices : get_neigh_comms(v, IGRAPH_IN)

SpecCacheIn == InitCache /\ [][NextCacheIn]_vars

\* Constraint assignments handed to the constrained query: one vertex, the
\* first or the last, in a group of its own.
ConstraintInputs ==
  { vector([i \in 1..VertexCount |-> IF i = k THEN 0 ELSE VertexCount - 1],
           VertexCount) : k \in {1, VertexCount} }

\* The constrained neighbour query between moves and cached queries.
NextConstrained ==
  \/ \E v \in Vertices, c \in Vertices : move_node(v, c)
  \/ \E v \in Vertices : get_neigh_comms(v, IGRAPH_OUT)
  \/ \E v \in Vertices, mode \in Modes, cm \in ConstraintInputs :
       get_neigh_comms_constrained(v, mode, cm)

SpecConstrained == InitCache /\ [][NextConstrained]_vars

\* ================================================================= claims
\* The community slots: the ids the per-community arrays hold.
Slots == 0..(Len(_csize) - 1)

HasSelfLoop(v) ==
  \E e \in 1..Len(graph.edges) : graph.edges[e].from = v /\ graph.edges[e].to = v

Moved == last.op = "move_node" /\ last.outcome # "crash" /\ last.old # last.comm

\* C1: after any sequence of move_node calls the internal, from and to weight
\* of every slot and the total internal weight equal what a fresh init_admin
\* computes from the current membership, 0 for slots it would not create.
C1_AggregatesMatchFreshInit ==
  /\ Len(_total_weight_in_comm) = Len(_csize)
  /\ Len(_total_weight_from_comm) = Len(_csize)
  /\ Len(_total_weight_to_comm) = Len(_csize)
  /\ \E fresh \in {init_admin(_membership)} :
       /\ Len(fresh.in_comm) <= Len(_csize)
       /\ _total_weight_in_comm = resize(fresh.in_comm, Len(_csize), 0)
       /\ _total_weight_from_comm = resize(fresh.from_comm, Len(_csize), 0)
       /\ _total_weight_to_comm = resize(fresh.to_comm, Len(_csize), 0)
       /\ _total_weight_in_all_comms = fresh.in_all

\* A vertex with a self-loop has moved between two communities and the total
\* internal weight has changed.
C1_Witness ==
  /\ Moved
  /\ HasSelfLoop(last.v)
  /\ _total_weight_in_all_comms # pre.in_all

\* C2: every vertex is in exactly one member set, the one of its membership.
C2_PartitionCoverage ==
  \A v \in Vertices :
    /\ at(_membership, v) < nb_communities
    /\ \A c \in 0..(nb_communities - 1) :
         (v \in at(community, c)) <=> (c = at(_membership, v))

\* A vertex has moved into a community that holds another vertex.
C2_Witness ==
  /\ Moved
  /\ Cardinality(at(community, last.comm)) >= 2

\* C3: a community slot has size 0 exactly when it is in the empty pool.
C3_EmptyIffPooled ==
  \A c \in 0..(nb_communities - 1) :
    (csize(c) = 0) <=> (\E i \in 1..Len(_empty_communities) : _empty_communities[i] = c)

\* The weight of the edges of v in direction mode whose other endpoint is in
\* community c under the current membership, each edge counted once.
direct_edge_weight(v, c, mode, ed) ==
  LET to_c   == ed.from = v /\ at(_membership, ed.to) = c
      from_c == ed.to = v /\ at(_membership, ed.from) = c
  IN  IF is_directed
      THEN (IF (mode = IGRAPH_OUT /\ to_c) \/ (mode = IGRAPH_IN /\ from_c)
            THEN ed.w ELSE 0)
      ELSE (IF to_c \/ from_c THEN ed.w ELSE 0)

direct_weight(v, c, mode) ==
  LET n == Len(graph.edges)
  IN  SetSum(1..n, [e \in 1..n |-> direct_edge_weight(v, c, mode, graph.edges[e])])

\* C4: weight_to_comm(v, c) and weight_from_comm(v, c) return the weight of
\* v's outgoing (incoming) edges whose other endpoint is now in community c,
\* on a cold cache and on a cache that already holds v.
C4_CachedWeightIsCurrent ==
  /\ last.op = "weight_to_comm" =>
       last.result = direct_weight(last.v, last.comm, IGRAPH_OUT)
  /\ last.op = "weight_from_comm" =>
       last.result = direct_weight(last.v, last.comm, IGRAPH_IN)

\* C5: a failing add_empty_community, called directly or through
\* get_empty_community, leaves the partition state as it was, the number of
\* community slots included.
C5_FailedAddLeavesState ==
  (last.op \in {"add_empty_community", "get_empty_community"}
     /\ last.outcome = "throw")
  => Snapshot = pre

\* C6: the running total of possible edges is the sum of possible_edges over
\* the sizes of the slots.
C6_PossibleEdgesIsSum ==
  _total_possible_edges_in_all_comms
    = SetSum(1..Len(_csize), [i \in 1..Len(_csize) |-> possible_edges(_csize[i])])

\* A vertex of size 2 has moved between two non-empty communities of
\* different sizes.
C6_Witness ==
  /\ Moved
  /\ node_size(last.v) > 1
  /\ at(pre.csize, last.comm) > 0
  /\ at(pre.csize, last.old) > node_size(last.v)
  /\ at(pre.csize, last.comm) # at(pre.csize, last.old)

\* C7: the total internal weight is the sum of the internal weights of the
\* slots.
C7_TotalInternalIsSum ==
  _total_weight_in_all_comms = SeqSum(_total_weight_in_comm)

\* A move into an empty slot has changed the total internal weight.
C7_Witness ==
  /\ Moved
  /\ at(pre.csize, last.comm) = 0
  /\ _total_weight_in_all_comms # pre.in_all
  /\ _total_weight_in_all_comms > 0

\* C8: the size of every slot is the sum of node_size over its members.
C8_SizeIsSumOfNodeSizes ==
  \A c \in 0..(nb_communities - 1) :
    csize(c) = SetSum(at(community, c), [v \in Vertices |-> node_size(v)])

\* A vertex of size 2 has been moved to the community it was in.
C8_Witness ==
  /\ last.op = "move_node"
  /\ last.old = last.comm
  /\ node_size(last.v) > 1

\* C9: move_node(v, A) followed by move_node(v, C), C the community v was in,
\* restores membership, member sets, sizes, the three weights of every slot
\* and both totals to their values before the first move.
C9_RoundTripRestores ==
  [][ ( /\ last.op = "move_node"
        /\ last.outcome # "crash"
        /\ last'.op = "move_node"
        /\ last'.outcome # "crash"
        /\ last'.undo )
      => ( /\ _membership' = pre.membership
           /\ community' = pre.community
           /\ _csize' = pre.csize
           /\ _total_weight_in_comm' = pre.in_comm
           /\ _total_weight_from_comm' = pre.from_comm
           /\ _total_weight_to_comm' = pre.to_comm
           /\ _total_weight_in_all_comms' = pre.in_all
           /\ _total_possible_edges_in_all_comms' = pre.possible ) ]_vars

\* A vertex has been moved to an empty community and back, and is again the
\* only member of its community.
C9_Witness ==
  /\ Moved
  /\ last.undo
  /\ at(community, last.comm) = {last.v}
  /\ at(_csize, last.old) = 0

\* C10: move_node(v, membership[v]) changes nothing: membership, member
\* sets, per-community aggregates, both totals and the empty pool with its
\* order.
C10_NoOpMoveChangesNothing ==
  (last.op = "move_node" /\ last.old = last.comm)
  => (last.outcome = "ok" /\ Snapshot = pre)

\* A vertex with a self-loop that is the only member of its community has
\* been moved to that community.
C10_Witness ==
  /\ last.op = "move_node"
  /\ last.old = last.comm
  /\ HasSelfLoop(last.v)
  /\ at(community, last.comm) = {last.v}

\* C11: an id get_empty_community returns is an allocated slot of size 0, and
\* a slot is minted only when the pool was empty.
C11_ReturnedIdIsEmptySlot ==
  (last.op = "get_empty_community" /\ last.outcome = "ok")
  => /\ last.result \in Slots
     /\ csize(last.result) = 0
     /\ at(community, last.result) = {}
     /\ last.minted => pre.empty = <<>>

\* C12: add_empty_community throws exactly when the slot count after the
\* append exceeds the vertex count; otherwise it returns the previous slot
\* count, the new slot has no members and size and weights 0, and its id is
\* on top of the pool.
C12_AddEmptyCommunity ==
  last.op = "add_empty_community"
  => /\ (last.outcome = "throw") <=> (Len(pre.community) + 1 > vcount)
     /\ last.outcome = "ok" =>
          /\ last.result = Len(pre.community)
          /\ nb_communities = Len(pre.community) + 1
          /\ at(community, last.result) = {}
          /\ _csize = Append(pre.csize, 0)
          /\ _total_weight_in_comm = Append(pre.in_comm, 0)
          /\ _total_weight_from_comm = Append(pre.from_comm, 0)
          /\ _total_weight_to_comm = Append(pre.to_comm, 0)
          /\ _empty_communities = Append(pre.empty, last.result)

\* add_empty_community has added the last slot the graph allows, on top of
\* a pool that held an entry.
C12_Witness ==
  /\ last.op = "add_empty_community"
  /\ last.outcome = "ok"
  /\ nb_communities = vcount
  /\ pre.empty # <<>>

\* C13: after renumber_communities() the ids in use are exactly 0..k-1, no
\* slot is empty, community_count() is the number of non-empty communities,
\* and two vertices share a community exactly when they did before the call.
C13_RenumberCompacts ==
  last.op = "renumber_communities"
  => /\ {at(_membership, v) : v \in Vertices} = 0..(nb_communities - 1)
     /\ Len(_csize) = nb_communities
     /\ \A c \in 0..(nb_communities - 1) :
          csize(c) > 0 /\ at(community, c) # {}
     /\ \A u, v \in Vertices :
          (at(last.arg1, u) = at(last.arg1, v))
            <=> (at(_membership, u) = at(_membership, v))

\* renumber_communities() has run on a partition with an empty slot below a
\* non-empty one and two communities of equal size.
C13_Witness ==
  /\ last.op = "renumber_communities"
  /\ \E i, j \in 1..Len(last.arg2) :
       i < j /\ last.arg2[i] = 0 /\ last.arg2[j] > 0
  /\ \E i, j \in 1..Len(last.arg2) :
       i # j /\ last.arg2[i] = last.arg2[j] /\ last.arg2[i] > 0

\* C14: after renumber_communities() the sizes are non-increasing in id
\* order.
C14_RenumberSortsBySize ==
  last.op = "renumber_communities"
  => \A i, j \in 0..(nb_communities - 1) : i < j => csize(i) >= csize(j)

\* renumber_communities() has run on three slots none of which kept its id.
C14_Witness ==
  /\ last.op = "renumber_communities"
  /\ Len(last.arg2) = 3
  /\ last.arg2[1] < last.arg2[3]
  /\ last.arg2[2] < last.arg2[1]
  /\ nb_communities = 2

\* The whole administration is the one init_admin builds from the current
\* membership.
MatchesFreshInit ==
  \E fresh \in {init_admin(_membership)} :
    /\ community = fresh.community
    /\ _csize = fresh.csize
    /\ _total_weight_in_comm = fresh.in_comm
    /\ _total_weight_from_comm = fresh.from_comm
    /\ _total_weight_to_comm = fresh.to_comm
    /\ _total_weight_in_all_comms = fresh.in_all
    /\ _total_possible_edges_in_all_comms = fresh.possible

\* C15 as the code has it: renumber_communities(new_membership) installs the
\* argument as the membership, vertex by vertex (membership[v] =
\* new_membership[v]), and the aggregates are then those of a fresh init.
C15_RenumberInstallsMembership ==
  last.op = "renumber_communities_membership"
  => /\ \A v \in Vertices : at(_membership, v) = at(last.arg1, v)
     /\ MatchesFreshInit

\* C15 as stated: the argument maps old community ids to new ones, the new
\* membership[v] being explicit_mapping[old membership[v]].
C15_RenumberAppliesIdMapping ==
  last.op = "renumber_communities_membership"
  => /\ \A v \in Vertices :
          at(_membership, v) = at(last.arg1, at(last.arg2, v))
     /\ MatchesFreshInit

\* renumber_communities(new_membership) has run with an argument that, read
\* as an id mapping, would have given some vertex another community.
C15_Witness ==
  /\ last.op = "renumber_communities_membership"
  /\ \E v \in Vertices : at(last.arg1, v) # at(last.arg1, at(last.arg2, v))

\* C16: from_coarser_partition(cm, map) gives vertex v the community
\* cm[map[v]]; the one-argument form does so with the membership before the
\* call as map, although it reads the vector it writes; the aggregates are
\* then those of a fresh init.
C16_FromCoarserPartition ==
  last.op \in {"from_coarser_partition", "from_coarser_partition_node"}
  => /\ \A v \in Vertices :
          at(_membership, v) = at(last.arg1, at(last.arg2, v))
     /\ MatchesFreshInit

\* The one-argument form has run on a membership other than the default one
\* and has given a membership that is neither cm nor the one before.
C16_Witness ==
  /\ last.op = "from_coarser_partition"
  /\ last.arg2 # range(vcount)
  /\ _membership # last.arg1
  /\ _membership # last.arg2

\* C17: the list get_neigh_comms(v, mode) returns holds every community id at
\* most once, and holds exactly the communities whose weight with v in that
\* direction is not zero.
C17_NeighCommsDistinct ==
  last.op = "get_neigh_comms"
  => /\ \A i, j \in 1..Len(last.rlist) :
          i # j => last.rlist[i] # last.rlist[j]
     /\ {last.rlist[i] : i \in 1..Len(last.rlist)}
          = {c \in 0..(nb_communities - 1) :
               direct_weight(last.v, c, last.mode) # 0}

\* C18: construction with a membership succeeds exactly when the membership
\* has vertex_count entries, and a failed one has built nothing; construction
\* without a membership gives membership[v] = v with vertex_count
\* communities, each holding its own vertex.
C18_Construction ==
  /\ last.op = "construct"
     => /\ (last.outcome = "ok") <=> (Len(last.arg1) = vcount)
        /\ last.outcome = "ok" => (_membership = last.arg1 /\ MatchesFreshInit)
        /\ last.outcome # "ok" => (community = <<>> /\ _csize = <<>>)
  /\ last.op = "construct_default"
     => /\ _membership = range(vcount)
        /\ nb_communities = vcount
        /\ \A v \in Vertices : at(community, v) = {v}

\* A constructor call with a membership one entry too long has failed.
C18_Witness ==
  /\ last.op = "construct"
  /\ last.outcome = "throw"
  /\ Len(last.arg1) = vcount + 1

\* The vector whose size a reconstruction would have to test.
installed_vector == IF last.op = "from_coarser_partition_node" THEN last.arg2
                    ELSE last.arg1

\* C19: a reconstruction from a caller's vector that has not vertex_count
\* entries reports InvalidArgument and leaves the partition as it was
\* (stated for the calls that come back to the caller at all).
C19_ReconstructionValidatesSize ==
  ( /\ last.op \in {"renumber_communities_membership", "from_partition",
                     "from_coarser_partition_node"}
    /\ Len(installed_vector) # vcount
    /\ last.outcome # "crash" )
  => (last.outcome = "throw" /\ Snapshot = pre)

\* The weight of the edges with both endpoints in community c, every edge
\* counted once at its weight, a self-loop included.
internal_edge_weight(c) ==
  LET n == Len(graph.edges)
  IN  SetSum(1..n, [e \in 1..n |->
        IF /\ at(_membership, graph.edges[e].from) = c
           /\ at(_membership, graph.edges[e].to) = c
        THEN graph.edges[e].w ELSE 0])

\* C20: a self-loop of weight w adds exactly w to the internal weight of its
\* vertex's community, in a directed and in an undirected graph, after init
\* and after move_node of that vertex, which takes w from the old community
\* and gives it to the new one.
C20_SelfLoopCountedOnce ==
  ( \/ last.op = "construct" /\ last.outcome = "ok"
    \/ Moved /\ HasSelfLoop(last.v) )
  => \A c \in Slots : at(_total_weight_in_comm, c) = internal_edge_weight(c)

\* A vertex with a self-loop has moved out of a community it shared into an
\* empty one, whose internal weight is now the weight of the self-loop.
C20_Witness ==
  /\ Moved
  /\ HasSelfLoop(last.v)
  /\ at(community, last.comm) = {last.v}
  /\ at(community, last.old) # {}
  /\ at(_total_weight_in_comm, last.comm) > 0
  /\ at(_total_weight_in_comm, last.comm) = internal_edge_weight(last.comm)

\* C21: whenever move_node(v, new_comm) finds the size of new_comm 0 at its
\* pool test, new_comm is in the pool: the reverse search stops on an entry
\* and erases it, and never runs to the end of the pool.
C21_PoolSearchFindsTarget ==
  last.op = "move_node"
  => /\ last.outcome = "ok"
     /\ at(pre.csize, last.comm) = 0
          => \E i \in 1..Len(pre.empty) : pre.empty[i] = last.comm

\* The weight table and the side list of a direction.
cached_weight(mode) ==
  IF mode = IGRAPH_IN THEN _cached_weight_from_community
  ELSE IF mode = IGRAPH_OUT THEN _cached_weight_to_community
  ELSE _cached_weight_all_community

cached_neigh_comms(mode) ==
  IF mode = IGRAPH_IN THEN _cached_neigh_comms_from
  ELSE IF mode = IGRAPH_OUT THEN _cached_neigh_comms_to
  ELSE _cached_neigh_comms_all

\* C22: a query that rebuilds a direction's table for v leaves no residue of
\* the vertex the slot held before: every entry is v's own accumulated
\* weight, 0 for a community without a neighbour of v; and every nonzero
\* entry of a direction's table is listed in that direction's side list.
C22_NoResidue ==
  /\ \A mode \in Modes : \A c \in 0..(Len(cached_weight(mode)) - 1) :
       at(cached_weight(mode), c) # 0
         => \E i \in 1..Len(cached_neigh_comms(mode)) :
              cached_neigh_comms(mode)[i] = c
  /\ ( /\ last.op \in {"weight_to_comm", "weight_from_comm", "get_neigh_comms"}
       /\ ~last.warm )
     => \A c \in 0..(Len(cached_weight(last.mode)) - 1) :
          at(cached_weight(last.mode), c) = direct_weight(last.v, c, last.mode)

\* A query has rebuilt the table over one that held a nonzero weight for a
\* community in which the queried vertex has no neighbour.
C22_Witness ==
  /\ last.op \in {"weight_to_comm", "weight_from_comm", "get_neigh_comms"}
  /\ ~last.warm
  /\ \E c \in 0..(Len(last.arg1) - 1) :
       /\ at(last.arg1, c) # 0
       /\ at(cached_weight(last.mode), c) = 0

\* u is a neighbour of v in direction mode: an edge joins them, leaving v
\* (OUT), entering v (IN) or either; in an undirected graph either.
is_neighbour(v, u, mode) ==
  \E e \in 1..Len(graph.edges) :
    LET ed  == graph.edges[e]
        out == ed.from = v /\ ed.to = u
        in  == ed.to = v /\ ed.from = u
    IN  IF is_directed /\ mode = IGRAPH_OUT THEN out
        ELSE IF is_directed /\ mode = IGRAPH_IN THEN in
        ELSE out \/ in

\* C23: get_neigh_comms(v, mode, constraint) returns exactly the communities,
\* under the current membership, of the neighbours of v in that direction
\* that share v's constraint group, and changes neither the partition nor
\* any cache marker, weight table or side list.
C23_ConstrainedNeighComms ==
  [][ last'.op = "get_neigh_comms_constrained"
      => /\ last'.rset =
              { at(_membership, u) :
                  u \in { w \in Vertices :
                            /\ is_neighbour(last'.v, w, last'.mode)
                            /\ at(last'.arg1, w) = at(last'.arg1, last'.v) } }
         /\ UNCHANGED <<partition_vars, cache_vars>> ]_vars

\* The constrained query has returned a community, has left out the
\* community of a neighbour of another constraint group, and has run while
\* the cache held a vertex.
C23_Witness ==
  /\ last.op = "get_neigh_comms_constrained"
  /\ last.rset # {}
  /\ \E u \in Vertices :
       /\ is_neighbour(last.v, u, last.mode)
       /\ at(last.arg1, u) # at(last.arg1, last.v)
       /\ at(_membership, u) \notin last.rset
  /\ _current_node_cache_community_to \in Vertices

\* The entries of pool other than a and b, in order.
pool_others(pool, a, b) == SelectSeq(pool, LAMBDA c : c # a /\ c # b)

\* C24: move_node(v, new_comm) with old_comm = membership[v] leaves alone
\* the membership of every other vertex; the member set, size, internal
\* weight, from weight and to weight of every community other than old_comm
\* and new_comm; the number of community slots; and the pool entries other
\* than old_comm and new_comm.
C24_MoveNodeFrame ==
  last.op = "move_node"
  => /\ \A u \in Vertices \ {last.v} :
          at(_membership, u) = at(pre.membership, u)
     /\ Len(_membership) = Len(pre.membership)
     /\ Len(community) = Len(pre.community)
     /\ Len(_csize) = Len(pre.csize)
     /\ Len(_total_weight_in_comm) = Len(pre.in_comm)
     /\ Len(_total_weight_from_comm) = Len(pre.from_comm)
     /\ Len(_total_weight_to_comm) = Len(pre.to_comm)
     /\ \A c \in Slots \ {last.old, last.comm} :
          /\ at(community, c) = at(pre.community, c)
          /\ at(_csize, c) = at(pre.csize, c)
          /\ at(_total_weight_in_comm, c) = at(pre.in_comm, c)
          /\ at(_total_weight_from_comm, c) = at(pre.from_comm, c)
          /\ at(_total_weight_to_comm, c) = at(pre.to_comm, c)
     /\ pool_others(_empty_communities, last.old, last.comm)
          = pool_others(pre.empty, last.old, last.comm)

====
